---- MODULE Spec2Model ----
(***************************************************************************)
(* Model of the AI triage demo front-end (src/app.py): the conversation    *)
(* store kept in the Streamlit session state, its persistence in the URL   *)
(* query parameters, the agent calls made by the chat handlers, and the    *)
(* e-mail allow-list check.                                                *)
(*                                                                         *)
(* Text is a sequence of one-character strings.  A JSON leaf value is a    *)
(* record [tag, s, t]: a Python str, a datetime, None or a number.         *)
(* Conversation ids, session ids (uuid4 hex text, which never contains a   *)
(* 'T') and message roles are kept atomic.                                 *)
(***************************************************************************)
EXTENDS Integers, Sequences, FiniteSets, TLC

\* ------------------------------------------------------------------ bounds
MaxTime == 4
MaxUuid == 8
MaxList == 2
MaxUserTime == 6

\* ------------------------------------------------------- program constants
TitleLimit == 50

\* -------------------------------------------------------------------- text
UpperCase == <<"A","B","C","D","E","F","G","H","I","J","K","L","M",
               "N","O","P","Q","R","S","T","U","V","W","X","Y","Z">>
LowerCase == <<"a","b","c","d","e","f","g","h","i","j","k","l","m",
               "n","o","p","q","r","s","t","u","v","w","x","y","z">>
Whitespace == {" "}
DigitChars == <<"0","1","2","3","4","5","6","7","8","9">>

\* str.lower() on one character
LowerChar(ch) ==
    IF \E i \in 1..26 : UpperCase[i] = ch
    THEN LowerCase[CHOOSE i \in 1..26 : UpperCase[i] = ch]
    ELSE ch

\* str.lower()
Lower(s) == [i \in 1..Len(s) |-> LowerChar(s[i])]

\* str.strip()
RECURSIVE LStrip(_)
LStrip(s) == IF s # <<>> /\ Head(s) \in Whitespace THEN LStrip(Tail(s)) ELSE s
RECURSIVE RStrip(_)
RStrip(s) ==
    IF s # <<>> /\ s[Len(s)] \in Whitespace
    THEN RStrip(SubSeq(s, 1, Len(s) - 1))
    ELSE s
Strip(s) == RStrip(LStrip(s))

\* ch in s
Contains(s, ch) == \E i \in 1..Len(s) : s[i] = ch

\* s[:n]
Prefix(s, n) == SubSeq(s, 1, IF n < Len(s) THEN n ELSE Len(s))

\* s.split(sep): the list of the segments between the separators
RECURSIVE Split(_, _)
Split(s, sep) ==
    IF ~Contains(s, sep) THEN <<s>>
    ELSE LET i == CHOOSE k \in 1..Len(s) :
                      s[k] = sep /\ \A j \in 1..(k - 1) : s[j] # sep
         IN <<SubSeq(s, 1, i - 1)>> \o Split(SubSeq(s, i + 1, Len(s)), sep)

\* a string of n copies of ch
Rep(n, ch) == [i \in 1..n |-> ch]

\* str(n) for 0 <= n < 100
DecimalText(n) ==
    IF n < 10 THEN <<DigitChars[n + 1]>>
    ELSE <<DigitChars[(n \div 10) + 1], DigitChars[(n % 10) + 1]>>

\* ------------------------------------------------------------- JSON leaves
Str(s) == [tag |-> "str", s |-> s, t |-> 0]
Dt(n) == [tag |-> "datetime", s |-> <<>>, t |-> n]
Num(n) == [tag |-> "num", s |-> <<>>, t |-> n]
None == [tag |-> "none", s |-> <<>>, t |-> 0]

\* Python truth value of a leaf (not x)
Truthy(v) ==
    CASE v.tag = "str" -> v.s # <<>>
      [] v.tag = "none" -> FALSE
      [] v.tag = "num" -> v.t # 0
      [] OTHER -> TRUE

\* datetime.isoformat(): instant n is written <n>-T: (date, 'T', time)
IsoFormat(n) == DecimalText(n) \o <<"-", "T", ":">>

\* whether datetime.fromisoformat(s) succeeds
IsIsoText(s) ==
    /\ Len(s) \in 4..5
    /\ SubSeq(s, Len(s) - 2, Len(s)) = <<"-", "T", ":">>
    /\ \A i \in 1..(Len(s) - 3) : \E d \in 1..10 : DigitChars[d] = s[i]
    /\ (Len(s) = 5 => s[1] # "0")

\* datetime.fromisoformat(s) for a string it accepts
DigitValue(ch) == (CHOOSE d \in 1..10 : DigitChars[d] = ch) - 1
FromIsoFormat(s) ==
    IF Len(s) = 4 THEN DigitValue(s[1])
    ELSE 10 * DigitValue(s[1]) + DigitValue(s[2])

\* DateTimeEncoder.default / json.dumps on a leaf
EncodeLeaf(v) == IF v.tag = "datetime" THEN Str(IsoFormat(v.t)) ELSE v

\* parse_datetime_in_dict on a leaf
ParseLeaf(v) ==
    IF /\ v.tag = "str"
       /\ Contains(v.s, "T")
       /\ (Contains(v.s, "-") \/ Contains(v.s, ":"))
       /\ IsIsoText(v.s)
    THEN Dt(FromIsoFormat(v.s))
    ELSE v

\* ------------------------------------------------------------ is_email_authorized
\* one allow-list entry of the loop body
EntryMatches(email, entry) ==
    LET authorized == Lower(Strip(entry))
        email_domain == IF Contains(email, "@")
                        THEN <<"@">> \o Split(email, "@")[2]
                        ELSE <<>>
    IN \/ email = authorized
       \/ /\ authorized # <<>>
          /\ Head(authorized) = "@"
          /\ email_domain = authorized

RECURSIVE AuthorizedLoop(_, _)
AuthorizedLoop(email, authorized_list) ==
    IF authorized_list = <<>> THEN FALSE
    ELSE IF EntryMatches(email, Head(authorized_list)) THEN TRUE
    ELSE AuthorizedLoop(email, Tail(authorized_list))

is_email_authorized(email, authorized_list) ==
    AuthorizedLoop(Lower(Strip(email)), authorized_list)

\* ------------------------------------------------------------ session state
VARIABLES
    conversations,            \* st.session_state.conversations: id -> record
    current_conversation_id,  \* st.session_state.current_conversation_id
    assessment_state,         \* st.session_state.assessment_state
    query_params,             \* st.query_params: the URL-held storage
    now,                      \* datetime.now(LOCAL_TZ) of the current cycle
    nextUuid,                 \* the next value uuid.uuid4() hands out
    posted,                   \* the agent calls issued by the last cycle
    autoSummaryCalls,         \* per conversation: automatic summary calls so far
    unhandled,                \* the last cycle ended in an uncaught exception
    email_input,              \* is_email_authorized: the email argument
    authorized_emails,        \* is_email_authorized: the authorized_list argument
    authorized,               \* is_email_authorized: the value returned
    authenticated,            \* st.session_state.authenticated
    user_email,               \* st.session_state.user_email
    touched_under,            \* per conversation: the users it was created or changed under
    page,                     \* what the last cycle showed: login_page or main_app
    auth_by,                  \* how the session came to be authenticated
    pc,                       \* where the session's script thread is
    in_flight,                \* the POSTs to the agent that have not returned
    queued                    \* a widget event arrived while the script was running

vars == <<conversations, current_conversation_id, assessment_state, query_params,
          now, nextUuid, posted, autoSummaryCalls, unhandled,
          email_input, authorized_emails, authorized,
          authenticated, user_email, touched_under, page, auth_by,
          pc, in_flight, queued>>

storeVars == <<conversations, current_conversation_id, assessment_state,
               query_params, now, nextUuid, posted, autoSummaryCalls, unhandled>>
authVars == <<email_input, authorized_emails, authorized>>
userVars == <<authenticated, user_email, touched_under, page, auth_by>>
callVars == <<pc, in_flight, queued>>
\* what the handlers of the conversation store leave alone
sideVars == <<authVars, userVars, callVars>>

\* current_conversation_id = None
NoneId == 0

\* dict helpers: d[k] = v, del d[k], d.get(k, default)
Put(d, k, v) == [j \in DOMAIN d \cup {k} |-> IF j = k THEN v ELSE d[j]]
Del(d, k) == [j \in DOMAIN d \ {k} |-> d[j]]
Get(d, k, default) == IF k \in DOMAIN d THEN d[k] ELSE default
EmptyDict == <<>>

\* the session as one value, threaded through the handlers
Session ==
    [conversations |-> conversations,
     current_conversation_id |-> current_conversation_id,
     assessment_state |-> assessment_state,
     query_params |-> query_params,
     now |-> now,
     nextUuid |-> nextUuid,
     posted |-> posted,
     autoSummaryCalls |-> autoSummaryCalls,
     unhandled |-> unhandled]

\* conversation[field] = value
SetField(s, conversation_id, field, value) ==
    [s EXCEPT !.conversations[conversation_id] = Put(@, field, value)]

\* ------------------------------------------------------------ persistence
EncodeMessage(m) ==
    [k \in DOMAIN m |-> IF k = "role" THEN m[k] ELSE EncodeLeaf(m[k])]
EncodeField(f, v) ==
    CASE f = "messages" -> [i \in 1..Len(v) |-> EncodeMessage(v[i])]
      [] f \in {"state", "assessment_state"} -> [k \in DOMAIN v |-> EncodeLeaf(v[k])]
      [] f \in {"id", "session_id"} -> v
      [] OTHER -> EncodeLeaf(v)
\* json.dumps(conversations, cls=DateTimeEncoder); base64 is one-to-one
EncodeCollection(c) ==
    [id \in DOMAIN c |-> [f \in DOMAIN c[id] |-> EncodeField(f, c[id][f])]]

ParseMessage(m) ==
    [k \in DOMAIN m |-> IF k = "role" THEN m[k] ELSE ParseLeaf(m[k])]
ParseField(f, v) ==
    CASE f = "messages" -> [i \in 1..Len(v) |-> ParseMessage(v[i])]
      [] f \in {"state", "assessment_state"} -> [k \in DOMAIN v |-> ParseLeaf(v[k])]
      [] f \in {"id", "session_id"} -> v
      [] OTHER -> ParseLeaf(v)
\* parse_datetime_in_dict(json.loads(...))
parse_datetime_in_dict(j) ==
    [id \in DOMAIN j |-> [f \in DOMAIN j[id] |-> ParseField(f, j[id][f])]]

save_conversations_to_storage(s) ==
    [s EXCEPT !.query_params = Put(@, "conv", EncodeCollection(s.conversations))]

load_conversations_from_storage(s) ==
    IF "conv" \in DOMAIN s.query_params
    THEN parse_datetime_in_dict(s.query_params["conv"])
    ELSE EmptyDict

\* ------------------------------------------------------------ fixed texts
\* "Conversation " of the default titles
ConversationText == <<"C","o","n","v","e","r","s","a","t","i","o","n"," ">>
\* initial_message of create_new_conversation (its opening words)
GreetingText == <<"H","i",","," ","I","'","m"," ","y","o","u","r"," ","A","I">>
\* the fallback assistant message of process_response (its opening words)
FallbackText == <<"I"," ","a","p","o","l","o","g","i","z","e">>
\* the sentinel "pending"
PendingText == <<"p","e","n","d","i","n","g">>
\* the truncation marker of a title
Ellipsis == <<".",".",".">>

\* ------------------------------------------------------------ conversation store
\* the fields migrate_conversations looks for
MigratedFields == {"created_at", "updated_at", "title", "messages",
                   "assessment_state", "session_id", "state", "summary"}

\* the value migrate_conversations gives a missing field; the fields are filled
\* in the order above, so updated_at sees the filled created_at and state the
\* filled assessment_state
MigrateDefault(f, conv_id, conv, t, uuid) ==
    CASE f = "created_at" -> Dt(t)
      [] f = "updated_at" -> Get(conv, "created_at", Dt(t))
      [] f = "title" -> Str(ConversationText \o Prefix(DecimalText(conv_id), 8))
      [] f = "messages" -> <<>>
      [] f = "assessment_state" -> EmptyDict
      [] f = "session_id" -> uuid
      [] f = "state" -> Get(conv, "assessment_state", EmptyDict)
      [] f = "summary" -> Str(<<>>)

\* faulty variant: the loop body refreshes updated_at even when the record has one
MigrateRecordRefreshing(conv_id, conv, t, uuid) ==
    [f \in DOMAIN conv \cup MigratedFields |->
        IF f \in DOMAIN conv /\ f # "updated_at"
        THEN conv[f]
        ELSE MigrateDefault(f, conv_id, conv, t, uuid)]

\* the loop body of migrate_conversations; uuid is what uuid4() returns if asked
MigrateRecord(conv_id, conv, t, uuid) ==
    [f \in DOMAIN conv \cup MigratedFields |->
        IF f \in DOMAIN conv THEN conv[f] ELSE MigrateDefault(f, conv_id, conv, t, uuid)]

\* the records without a session_id: each draws one uuid, in loop order
LackingSession(convs) == {id \in DOMAIN convs : "session_id" \notin DOMAIN convs[id]}

migrate_conversations(s) ==
    IF \A id \in DOMAIN s.conversations : MigratedFields \subseteq DOMAIN s.conversations[id]
    THEN s
    ELSE save_conversations_to_storage(
             [s EXCEPT !.conversations =
                           [id \in DOMAIN @ |->
                               MigrateRecord(id, @[id], s.now,
                                   s.nextUuid + Cardinality({j \in LackingSession(@) : j < id}))],
                       !.nextUuid = @ + Cardinality(LackingSession(s.conversations))])

\* faulty variant: the new conversation is stored and selected but never saved
CreateWithoutSave(s) ==
    [s EXCEPT !.conversations =
                  Put(@, s.nextUuid,
                      [id |-> s.nextUuid,
                       session_id |-> s.nextUuid + 1,
                       title |-> Str(ConversationText
                                     \o DecimalText(Cardinality(DOMAIN @) + 1)),
                       messages |-> <<[role |-> "assistant",
                                       content |-> Str(GreetingText),
                                       timestamp |-> Dt(s.now), latency |-> None]>>,
                       created_at |-> Dt(s.now),
                       updated_at |-> Dt(s.now),
                       state |-> EmptyDict,
                       summary |-> Str(<<>>),
                       assessment_state |-> EmptyDict]),
              !.nextUuid = @ + 2,
              !.current_conversation_id = s.nextUuid,
              !.assessment_state = EmptyDict]

create_new_conversation(s) ==
    save_conversations_to_storage(
        [s EXCEPT !.conversations =
                      Put(@, s.nextUuid,
                          [id |-> s.nextUuid,
                           session_id |-> s.nextUuid + 1,
                           title |-> Str(ConversationText
                                         \o DecimalText(Cardinality(DOMAIN @) + 1)),
                           messages |-> <<[role |-> "assistant",
                                           content |-> Str(GreetingText),
                                           timestamp |-> Dt(s.now), latency |-> None]>>,
                           created_at |-> Dt(s.now),
                           updated_at |-> Dt(s.now),
                           state |-> EmptyDict,
                           summary |-> Str(<<>>),
                           assessment_state |-> EmptyDict]),
                  !.nextUuid = @ + 2,
                  !.current_conversation_id = s.nextUuid,
                  !.assessment_state = EmptyDict])

\* faulty variant: init_session_state without the auto-create
CreateNever(s) == s

\* the last lines of init_session_state: auto-create the first conversation
CreateIfEmpty(s) ==
    IF DOMAIN s.conversations = {} THEN create_new_conversation(s) ELSE s

\* init_session_state in a session that already holds its keys (a rerun)
init_session_state(s) == CreateIfEmpty(migrate_conversations(s))

\* init_session_state in a fresh session: every key is set from scratch
init_new_session(s) ==
    init_session_state(
        [s EXCEPT !.conversations = load_conversations_from_storage(s),
                  !.current_conversation_id = NoneId,
                  !.assessment_state = EmptyDict])

\* faulty variant: the length test is off by one
TitleOfOffByOne(first_message) ==
    IF Len(first_message) >= TitleLimit
    THEN Prefix(first_message, TitleLimit) \o Ellipsis
    ELSE first_message

\* first_message[:50] + "..." if len(first_message) > 50 else first_message
TitleOf(first_message) ==
    IF Len(first_message) > TitleLimit
    THEN Prefix(first_message, TitleLimit) \o Ellipsis
    ELSE first_message

update_conversation_title(s, conversation_id, first_message) ==
    IF conversation_id \in DOMAIN s.conversations
    THEN save_conversations_to_storage(
             SetField(s, conversation_id, "title", Str(TitleOf(first_message))))
    ELSE s

\* faulty variant: the pointer is kept when its conversation is deleted
UnselectNever(s, conversation_id) == s

\* the second half of delete_conversation: the record is gone
UnselectDeleted(s, conversation_id) ==
    IF s.current_conversation_id = conversation_id
    THEN [s EXCEPT !.current_conversation_id = NoneId, !.assessment_state = EmptyDict]
    ELSE s

delete_conversation(s, conversation_id) ==
    IF conversation_id \in DOMAIN s.conversations
    THEN save_conversations_to_storage(
             UnselectDeleted([s EXCEPT !.conversations = Del(@, conversation_id)],
                             conversation_id))
    ELSE s

\* ------------------------------------------------------------ agent client
\* call_api: one POST to the agent; response is what it returns, the
\* environment's choice.  site tells the three call sites apart: "chat",
\* "manual", "auto".
call_api(s, site, session_id, generate_summary, response) ==
    [s EXCEPT !.posted = Append(@, [site |-> site,
                                    session_id |-> session_id,
                                    generate_summary |-> generate_summary,
                                    response |-> response])]

\* call_api returned None (exception caught, st.error shown)
ApiNone == EmptyDict

\* a reply dict: response.json() plus "_latency"
Reply(fields) == Put(fields, "_latency", Num(1))
OkText == <<"o","k">>
SummaryText == <<"s","u","m">>
SuitableText == <<"s","u","i","t","a","b","l","e">>
MixedPendingText == <<"P","e","n","d","i","n","g">>
OneMessage(text) == <<[content |-> Str(text)]>>

\* what the agent may answer to a chat message
ChatReplies ==
    { ApiNone,
      Reply([messages |-> OneMessage(OkText)]),
      Reply([custom_outputs |-> [result |-> Str(PendingText)]]),
      Reply([messages |-> <<>>, custom_outputs |-> EmptyDict]),
      Reply([messages |-> <<EmptyDict>>, custom_outputs |-> [result |-> None]]),
      Reply([messages |-> OneMessage(OkText), custom_outputs |-> [result |-> Str(<<>>)]]),
      Reply([messages |-> OneMessage(OkText),
             custom_outputs |-> [result |-> Str(MixedPendingText)]]),
      Reply([messages |-> OneMessage(OkText),
             custom_outputs |-> [result |-> Str(SuitableText)]]) }

\* what the agent may answer to a summary request
SummaryReplies ==
    { ApiNone,
      Reply([messages |-> OneMessage(SummaryText)]),
      Reply([messages |-> OneMessage(<<>>)]),
      Reply([messages |-> <<>>]),
      Reply(EmptyDict) }

\* ------------------------------------------------------------ assessment projector
\* response["messages"][0] exists
HasFirstMessage(response) ==
    "messages" \in DOMAIN response /\ Len(response["messages"]) > 0

\* the assistant's visible text, or the fallback
AssistantMessage(response) ==
    IF HasFirstMessage(response)
    THEN Get(response["messages"][1], "content", Str(<<>>))
    ELSE Str(FallbackText)

\* (x or "").lower()
LowerOrEmpty(result) == Lower(IF Truthy(result) THEN result.s ELSE <<>>)

\* result_status of process_response
ResultStatus(state) ==
    IF Get(state, "result", None).tag # "none"
    THEN LowerOrEmpty(Get(state, "result", None))
    ELSE PendingText

\* faulty variant: the guard forgets the summary already recorded
AutoSummaryDueUnguarded(conv) ==
    /\ ResultStatus(conv["state"]) # <<>>
    /\ ResultStatus(conv["state"]) # PendingText

\* the guard of the automatic summary
AutoSummaryDue(conv) ==
    /\ ResultStatus(conv["state"]) # <<>>
    /\ ResultStatus(conv["state"]) # PendingText
    /\ ~Truthy(Get(conv, "summary", None))

\* faulty variant: touching a conversation also renews its session_id
TouchAndSaveNewSession(s, conversation_id) ==
    save_conversations_to_storage(
        SetField(SetField(s, conversation_id, "updated_at", Dt(s.now)),
                 conversation_id, "session_id", s.nextUuid))

\* conversation['updated_at'] = now; save_conversations_to_storage()
TouchAndSave(s, conversation_id) ==
    save_conversations_to_storage(SetField(s, conversation_id, "updated_at", Dt(s.now)))

\* if response: conversation["summary"] = response["messages"][0].get("content", "")
StoreAutoSummary(s, conversation_id, summary_response) ==
    IF DOMAIN summary_response = {} THEN TouchAndSave(s, conversation_id)
    ELSE IF ~HasFirstMessage(summary_response)
    THEN [s EXCEPT !.unhandled = TRUE]   \* KeyError / IndexError leaves the handler
    ELSE TouchAndSave(
             SetField(s, conversation_id, "summary",
                      Get(summary_response["messages"][1], "content", Str(<<>>))),
             conversation_id)

\* the automatic summary call of process_response
AutoSummary(s, conversation_id, summary_response) ==
    StoreAutoSummary(
        call_api([s EXCEPT !.autoSummaryCalls =
                               Put(@, conversation_id, Get(@, conversation_id, 0) + 1)],
                 "auto", s.conversations[conversation_id]["session_id"], TRUE,
                 summary_response),
        conversation_id, summary_response)

\* conversation["messages"].append({... assistant ...})
AppendAssistant(s, response, conversation_id) ==
    SetField(s, conversation_id, "messages",
             Append(s.conversations[conversation_id]["messages"],
                    [role |-> "assistant", content |-> AssistantMessage(response),
                     timestamp |-> Dt(s.now), latency |-> Get(response, "_latency", None)]))

\* conversation["state"] = response["custom_outputs"], when present
ProjectState(s, response, conversation_id) ==
    IF "custom_outputs" \in DOMAIN response
    THEN [SetField(s, conversation_id, "state", response["custom_outputs"])
             EXCEPT !.assessment_state = response["custom_outputs"]]
    ELSE s

\* the rest of the non-summary branch
SummariseOrTouch(s, conversation_id, summary_response) ==
    IF AutoSummaryDue(s.conversations[conversation_id])
    THEN AutoSummary(s, conversation_id, summary_response)
    ELSE TouchAndSave(s, conversation_id)

process_response(s, response, conversation_id, summary, summary_response) ==
    IF DOMAIN response = {} THEN s
    ELSE IF conversation_id \notin DOMAIN s.conversations THEN s
    ELSE IF summary
    THEN save_conversations_to_storage(
             SetField(s, conversation_id, "summary", AssistantMessage(response)))
    ELSE SummariseOrTouch(
             ProjectState(AppendAssistant(s, response, conversation_id),
                          response, conversation_id),
             conversation_id, summary_response)

\* ------------------------------------------------------------ handlers
\* get_current_conversation
CurrentConversation(s) == s.conversations[s.current_conversation_id]

\* the user messages of a conversation
UserMessages(conv) ==
    {i \in 1..Len(conv["messages"]) : conv["messages"][i]["role"] = "user"}

\* conv["messages"].append({... user ...})
AppendUser(s, prompt) ==
    SetField(s, s.current_conversation_id, "messages",
             Append(CurrentConversation(s)["messages"],
                    [role |-> "user", content |-> Str(prompt),
                     timestamp |-> Dt(s.now), latency |-> None]))

\* the title is set on the first user message only
TitleIfFirst(s, prompt) ==
    IF Cardinality(UserMessages(CurrentConversation(s))) = 1
    THEN update_conversation_title(s, CurrentConversation(s)["id"], prompt)
    ELSE s

\* st.rerun() after process_response, unless an exception left the handler
RerunUnlessRaised(s) == IF s.unhandled THEN s ELSE init_session_state(s)

\* faulty variant: a failed call is answered with the fallback message
AfterChatCallFallback(s, response, summary_response) ==
    IF DOMAIN response # {}
    THEN RerunUnlessRaised(
             process_response(s, response, CurrentConversation(s)["id"],
                              FALSE, summary_response))
    ELSE AppendAssistant(s, response, CurrentConversation(s)["id"])

\* if response: process_response(...); st.rerun()  else: st.error(...)
AfterChatCall(s, response, summary_response) ==
    IF DOMAIN response # {}
    THEN RerunUnlessRaised(
             process_response(s, response, CurrentConversation(s)["id"],
                              FALSE, summary_response))
    ELSE s

\* render_mobile_chat, the chat_input branch
SendHandler(s, prompt, response, summary_response) ==
    AfterChatCall(
        call_api(save_conversations_to_storage(TitleIfFirst(AppendUser(s, prompt), prompt)),
                 "chat", CurrentConversation(s)["session_id"], FALSE, response),
        response, summary_response)

\* faulty variant: the summary reply is processed like a chat reply
AfterSummaryCallAsChat(s, response) ==
    IF DOMAIN response # {}
    THEN init_session_state(
             process_response(s, response, CurrentConversation(s)["id"], FALSE, ApiNone))
    ELSE s

\* if response: process_response(..., summary=True); st.rerun()
AfterSummaryCall(s, response) ==
    IF DOMAIN response # {}
    THEN init_session_state(
             process_response(s, response, CurrentConversation(s)["id"], TRUE, ApiNone))
    ELSE s

\* render_mobile_chat, the "Generate Summary" button
SummaryHandler(s, response) ==
    AfterSummaryCall(
        call_api(s, "manual", CurrentConversation(s)["session_id"], TRUE, response),
        response)

\* render_mobile_sidebar, a conversation's title button
SelectHandler(s, id) ==
    init_session_state(
        [s EXCEPT !.current_conversation_id = s.conversations[id]["id"],
                  !.assessment_state =
                      Get(s.conversations[id], "state",
                          Get(s.conversations[id], "assessment_state", EmptyDict))])

\* render_mobile_sidebar, a conversation's delete button
DeleteHandler(s, id) ==
    init_session_state(delete_conversation(s, s.conversations[id]["id"]))

\* render_mobile_sidebar, the "New Conversation" button
NewHandler(s) == init_session_state(create_new_conversation(s))

\* ------------------------------------------------------------ the state machine
\* what the user may type
Prompts == { IsoFormat(1), Rep(TitleLimit, "a"), Rep(TitleLimit + 1, "a") }

\* a cycle starts after some time has passed; every datetime.now() of the cycle
\* reads the same value
StartCycle == [Session EXCEPT !.now = @ + 1, !.posted = <<>>, !.unhandled = FALSE]

\* main() runs init_session_state before any widget
Begin == init_session_state(StartCycle)

\* a cycle ends in session s, within the bounds
Commit(s) ==
    /\ s.nextUuid <= MaxUuid + 1
    /\ conversations' = s.conversations
    /\ current_conversation_id' = s.current_conversation_id
    /\ assessment_state' = s.assessment_state
    /\ query_params' = s.query_params
    /\ now' = s.now
    /\ nextUuid' = s.nextUuid
    /\ posted' = s.posted
    /\ autoSummaryCalls' = s.autoSummaryCalls
    /\ unhandled' = s.unhandled

\* render_mobile_chat shows the chat only for an existing current conversation
ChatShown(s) ==
    /\ s.current_conversation_id # NoneId
    /\ s.current_conversation_id \in DOMAIN s.conversations

FreshSession ==
    [conversations |-> EmptyDict, current_conversation_id |-> NoneId,
     assessment_state |-> EmptyDict, query_params |-> EmptyDict,
     now |-> 1, nextUuid |-> 1, posted |-> <<>>,
     autoSummaryCalls |-> EmptyDict, unhandled |-> FALSE]

\* the start value of each session variable
StartsAs(s) ==
    /\ conversations = s.conversations
    /\ current_conversation_id = s.current_conversation_id
    /\ assessment_state = s.assessment_state
    /\ query_params = s.query_params
    /\ now = s.now
    /\ nextUuid = s.nextUuid
    /\ posted = s.posted
    /\ autoSummaryCalls = s.autoSummaryCalls
    /\ unhandled = s.unhandled

NoAuthCheck ==
    /\ email_input = <<>>
    /\ authorized_emails = <<>>
    /\ authorized = "unset"

\* user_email = None
NoUser == <<"N","o","n","e">>
UserA == <<"a","@","e","x","a","m","p","l","e",".","c","o","m">>
UserB == <<"b","@","e","x","a","m","p","l","e",".","c","o","m">>

\* nobody is logged in
LoggedOut ==
    /\ authenticated = FALSE
    /\ user_email = NoUser
    /\ page = "login"
    /\ auth_by = "none"

\* main_app runs for one user, logged in throughout
OneUser ==
    /\ authenticated = TRUE
    /\ user_email = UserA
    /\ touched_under = EmptyDict
    /\ page = "app"
    /\ auth_by = "login"

\* no script run is in progress and no POST is outstanding
ScriptIdle ==
    /\ pc = "idle"
    /\ in_flight = {}
    /\ queued = FALSE

\* the first cycle of a session opened on a URL without parameters
Init ==
    /\ StartsAs(init_new_session(FreshSession))
    /\ NoAuthCheck
    /\ OneUser
    /\ ScriptIdle

\* the replies to the automatic summary call that can matter: the call is made
\* only when the chat reply leaves the conversation due for a summary
SummaryRepliesFor(s, response) ==
    IF /\ DOMAIN response # {}
       /\ AutoSummaryDue(CurrentConversation(ProjectState(s, response,
                                                          s.current_conversation_id)))
    THEN SummaryReplies
    ELSE {ApiNone}

UserSend ==
    /\ now < MaxTime
    /\ ChatShown(Begin)
    /\ \E prompt \in Prompts, response \in ChatReplies :
           \E summary_response \in SummaryRepliesFor(Begin, response) :
               Commit(SendHandler(Begin, prompt, response, summary_response))
    /\ UNCHANGED sideVars

GenerateSummary ==
    /\ now < MaxTime
    /\ ChatShown(Begin)
    /\ \E response \in SummaryReplies : Commit(SummaryHandler(Begin, response))
    /\ UNCHANGED sideVars

SelectConversation ==
    /\ now < MaxTime
    /\ \E id \in DOMAIN Begin.conversations : Commit(SelectHandler(Begin, id))
    /\ UNCHANGED sideVars

DeleteConversation ==
    /\ now < MaxTime
    /\ \E id \in DOMAIN Begin.conversations : Commit(DeleteHandler(Begin, id))
    /\ UNCHANGED sideVars

NewConversation ==
    /\ now < MaxTime
    /\ Commit(NewHandler(Begin))
    /\ UNCHANGED sideVars

\* the browser reloads the page: a new session on the same URL
Reload ==
    /\ now < MaxTime
    /\ Commit(init_new_session(StartCycle))
    /\ UNCHANGED sideVars

Next ==
    \/ UserSend
    \/ GenerateSummary
    \/ SelectConversation
    \/ DeleteConversation
    \/ NewConversation
    \/ Reload

Spec == Init /\ [][Next]_vars

\* ------------------------------------------------------------ migration alone
\* a complete record as an earlier version of the program stored it
LegacyRecord(id) ==
    [id |-> id,
     session_id |-> 100 + id,
     title |-> Str(OkText),
     messages |-> <<[role |-> "assistant", content |-> Str(GreetingText),
                     timestamp |-> Dt(0), latency |-> None],
                    [role |-> "user", content |-> Str(OkText),
                     timestamp |-> Dt(1), latency |-> None]>>,
     created_at |-> Dt(0),
     updated_at |-> Dt(1),
     state |-> [result |-> Str(PendingText)],
     summary |-> Str(SummaryText),
     assessment_state |-> [result |-> Str(SuitableText)]]

\* the record with only the fields kept, and the id
Keeping(rec, kept) == [f \in kept \cup {"id"} |-> rec[f]]

\* the stored collections: one record with any fields missing, alone or beside
\* a second record that is complete, bare, or holds only its timestamps
LegacyCollections ==
    { [id \in {1} |-> Keeping(LegacyRecord(1), kept)] : kept \in SUBSET MigratedFields }
    \cup
    { [id \in {1, 2} |-> IF id = 1 THEN Keeping(LegacyRecord(1), kept)
                                   ELSE Keeping(LegacyRecord(2), other)] :
          kept \in SUBSET MigratedFields,
          other \in {MigratedFields, {}, {"created_at", "updated_at"}} }

\* a fresh session has just hydrated a stored collection (init_session_state
\* up to the call of migrate_conversations)
InitMigrate ==
    /\ \E stored \in LegacyCollections :
           StartsAs([FreshSession EXCEPT
                         !.conversations = stored,
                         !.query_params = [conv |-> EncodeCollection(stored)]])
    /\ NoAuthCheck
    /\ OneUser
    /\ ScriptIdle

\* migrate_conversations runs, as it does at the top of every cycle
Migrate ==
    /\ now < MaxTime
    /\ Commit(migrate_conversations(StartCycle))
    /\ UNCHANGED sideVars

NextMigrate == Migrate

SpecMigrate == InitMigrate /\ [][NextMigrate]_vars

\* ------------------------------------------------------------ a session on a legacy URL
\* the collections an earlier session left in the URL: a bare record, and a
\* record without session_id beside a complete one
LegacySessions ==
    { [id \in {1} |-> Keeping(LegacyRecord(1), {})],
      [id \in {1, 2} |-> IF id = 1
                         THEN Keeping(LegacyRecord(1), MigratedFields \ {"session_id"})
                         ELSE LegacyRecord(2)] }

\* the first cycle of a session opened on such a URL: init_session_state loads
\* and migrates the collection; uuids 1 and 2 name the stored conversations
InitLegacy ==
    /\ \E stored \in LegacySessions :
           StartsAs(init_new_session(
               [FreshSession EXCEPT !.nextUuid = 3,
                                    !.query_params = [conv |-> EncodeCollection(stored)]]))
    /\ NoAuthCheck
    /\ OneUser
    /\ ScriptIdle

SpecLegacy == InitLegacy /\ [][Next]_vars

\* ------------------------------------------------------------ the agent calls, step by step
\* A session's script runs on one thread, top to bottom; requests.post blocks
\* it until the agent answers.  A widget event that arrives meanwhile waits
\* for the run to end.  pc tells which call the thread is blocked in.

\* the POST of call_api for the current conversation, from the given call site
Call(site) == [conversation |-> current_conversation_id, site |-> site]

\* faulty variant: a POST that returned is still counted as outstanding
StillOutstanding(calls, call) == calls

\* requests.post returned: the call is no longer outstanding
Returned(calls, call) == calls \ {call}

\* the thread enters requests.post at a call site
Blocks(site, calls) ==
    /\ pc' = site
    /\ in_flight' = calls \cup {Call(site)}

\* the script run ends
RunEnds(calls) ==
    /\ pc' = "idle"
    /\ in_flight' = calls

\* the chat_input branch up to the POST: append, title, save, call_api
SendStarts ==
    /\ pc = "idle"
    /\ now < MaxTime
    /\ ChatShown(Begin)
    /\ \E prompt \in Prompts :
           Commit(save_conversations_to_storage(
                      TitleIfFirst(AppendUser(Begin, prompt), prompt)))
    /\ Blocks("chat", in_flight)
    /\ queued' = FALSE
    /\ UNCHANGED <<authVars, userVars>>

\* process_response up to the automatic summary's POST
BeforeAutoCall(s, response) ==
    ProjectState(AppendAssistant(s, response, s.current_conversation_id),
                 response, s.current_conversation_id)

\* the chat reply arrives with the session as s: nothing to process, or the
\* automatic summary call starts, or process_response runs to its end
ChatContinues(s, response) ==
    IF DOMAIN response = {}
    THEN Commit(s) /\ RunEnds(Returned(in_flight, Call("chat")))
    ELSE IF AutoSummaryDue(CurrentConversation(BeforeAutoCall(s, response)))
    THEN /\ Commit(BeforeAutoCall(s, response))
         /\ pc' = "auto"
         /\ in_flight' = Returned(in_flight, Call("chat")) \cup {Call("auto")}
    ELSE /\ Commit(init_session_state(
                       TouchAndSave(BeforeAutoCall(s, response),
                                    s.current_conversation_id)))
         /\ RunEnds(Returned(in_flight, Call("chat")))

\* the POST of the chat call returns
ChatReturns ==
    /\ pc = "chat"
    /\ \E response \in ChatReplies :
           ChatContinues(call_api(Session, "chat",
                                  conversations[current_conversation_id]["session_id"],
                                  FALSE, response),
                         response)
    /\ UNCHANGED <<authVars, userVars, queued>>

\* the POST of the automatic summary call returns; process_response ends
AutoReturns ==
    /\ pc = "auto"
    /\ \E summary_response \in SummaryReplies :
           Commit(RerunUnlessRaised(
                      AutoSummary(Session, current_conversation_id, summary_response)))
    /\ RunEnds(Returned(in_flight, Call("auto")))
    /\ UNCHANGED <<authVars, userVars, queued>>

\* the "Generate Summary" button up to the POST
SummaryStarts ==
    /\ pc = "idle"
    /\ now < MaxTime
    /\ ChatShown(Begin)
    /\ Commit(Begin)
    /\ Blocks("manual", in_flight)
    /\ queued' = FALSE
    /\ UNCHANGED <<authVars, userVars>>

\* the POST of the manual summary call returns
ManualReturns ==
    /\ pc = "manual"
    /\ \E response \in SummaryReplies :
           Commit(AfterSummaryCall(
                      call_api(Session, "manual",
                               conversations[current_conversation_id]["session_id"],
                               TRUE, response),
                      response))
    /\ RunEnds(Returned(in_flight, Call("manual")))
    /\ UNCHANGED <<authVars, userVars, queued>>

\* the user presses a widget while the script is blocked in a call
WidgetEvent ==
    /\ pc # "idle"
    /\ ~queued
    /\ queued' = TRUE
    /\ UNCHANGED <<storeVars, authVars, userVars, pc, in_flight>>

NextCalls ==
    \/ SendStarts
    \/ ChatReturns
    \/ AutoReturns
    \/ SummaryStarts
    \/ ManualReturns
    \/ WidgetEvent

SpecCalls == Init /\ [][NextCalls]_vars

\* ------------------------------------------------------------ users logging in and out
\* AUTHORIZED_EMAILS of the deployment
AllowList == << <<"@","e","x","a","m","p","l","e",".","c","o","m">> >>

\* the conversations a step created or changed are marked with the user
Touching(user) ==
    touched_under' =
        [id \in DOMAIN conversations' |->
            IF id \in DOMAIN conversations /\ conversations'[id] = conversations[id]
            THEN Get(touched_under, id, {})
            ELSE Get(touched_under, id, {}) \cup {user}]

\* a new session on an empty URL: init_session_state creates the first
\* conversation before anybody has logged in
InitUsers ==
    /\ StartsAs(init_new_session(FreshSession))
    /\ NoAuthCheck
    /\ LoggedOut
    /\ touched_under = [id \in DOMAIN conversations |-> {NoUser}]
    /\ ScriptIdle

\* save_auth_to_storage: the record holds the email, the token of
\* generate_auth_token and the time
save_auth_to_storage(s, email) ==
    [s EXCEPT !.query_params =
         Put(@, "auth", [email |-> Str(email),
                         token |-> Str(email \o <<":">> \o IsoFormat(s.now)),
                         timestamp |-> Str(IsoFormat(s.now))])]

\* clear_auth_from_storage
clear_auth_from_storage(s) ==
    [s EXCEPT !.query_params = Del(@, "auth")]

\* main: the persisted auth record is accepted when it holds an email and a token
HoldsLogin(url) ==
    /\ "auth" \in DOMAIN url
    /\ {"email", "token"} \subseteq DOMAIN url["auth"]

\* the character classes of is_valid_email's pattern
Letters == {UpperCase[i] : i \in 1..26} \cup {LowerCase[i] : i \in 1..26}
Digits == {DigitChars[i] : i \in 1..10}
LocalChars == Letters \cup Digits \cup {".", "_", "%", "+", "-"}
DomainChars == Letters \cup Digits \cup {".", "-"}
AllIn(s, from, to, class) == \A k \in from..to : s[k] \in class

\* [a-zA-Z0-9._%+-]+@[a-zA-Z0-9.-]+\.[a-zA-Z]{2,} over the whole of s
MatchesEmail(s) ==
    \E i \in 2..Len(s), j \in 1..Len(s) :
        /\ s[i] = "@"
        /\ AllIn(s, 1, i - 1, LocalChars)
        /\ j >= i + 2
        /\ s[j] = "."
        /\ AllIn(s, i + 1, j - 1, DomainChars)
        /\ Len(s) - j >= 2
        /\ AllIn(s, j + 1, Len(s), Letters)

\* re.match(pattern, email) is not None; $ also matches before a final newline
is_valid_email(email) ==
    \/ MatchesEmail(email)
    \/ /\ email # <<>>
       /\ email[Len(email)] = "\n"
       /\ MatchesEmail(SubSeq(email, 1, Len(email) - 1))

\* what may be typed into the email field: the two users, an address outside
\* the allow-list, an allowed address with a leading blank, nothing, and an
\* address without a top-level domain
Mallory == <<"m","@","e","v","i","l",".","c","o","m">>
LoginEmails ==
    { UserA, UserB, Mallory, <<" ">> \o UserA, <<>>,
      <<"a","@","e","x","a","m","p","l","e">> }

\* faulty variant: the format of the address is not checked
LoginAcceptedUnvalidated(email) ==
    /\ email # <<>>
    /\ is_email_authorized(email, AllowList)

\* login_page: the three tests in front of the login
LoginAccepted(email) ==
    /\ email # <<>>
    /\ is_valid_email(email)
    /\ is_email_authorized(email, AllowList)

\* login_page: "Continue with Email"; an accepted address is saved and the
\* rerun shows main_app, any other gets an error on the login page
LoginAs ==
    /\ now < MaxUserTime
    /\ ~authenticated
    /\ ~HoldsLogin(query_params)
    /\ \E email \in LoginEmails :
           IF LoginAccepted(email)
           THEN /\ Commit(init_session_state(save_auth_to_storage(Begin, email)))
                /\ authenticated' = TRUE
                /\ user_email' = email
                /\ page' = "app"
                /\ auth_by' = "login"
                /\ Touching(email)
           ELSE /\ Commit(Begin)
                /\ page' = "login"
                /\ Touching(NoUser)
                /\ UNCHANGED <<authenticated, user_email, auth_by>>
    /\ UNCHANGED <<authVars, callVars>>

\* main: the "Logout" button, then the rerun, which shows the login page
Logout ==
    /\ now < MaxUserTime
    /\ authenticated
    /\ Commit(init_session_state(clear_auth_from_storage(Begin)))
    /\ authenticated' = FALSE
    /\ user_email' = NoUser
    /\ page' = "login"
    /\ auth_by' = "none"
    /\ Touching(NoUser)
    /\ UNCHANGED <<authVars, callVars>>

\* what the agent answers in this specification
PlainReplies == {ApiNone, Reply([messages |-> OneMessage(OkText)])}

\* the logged-in user sends a chat message
SendAs ==
    /\ now < MaxUserTime
    /\ authenticated
    /\ ChatShown(Begin)
    /\ \E response \in PlainReplies :
           Commit(SendHandler(Begin, OkText, response, ApiNone))
    /\ Touching(user_email)
    /\ UNCHANGED <<authenticated, user_email, page, auth_by, authVars, callVars>>

\* the logged-in user presses "New Conversation"
NewAs ==
    /\ now < MaxUserTime
    /\ authenticated
    /\ Commit(NewHandler(Begin))
    /\ Touching(user_email)
    /\ UNCHANGED <<authenticated, user_email, page, auth_by, authVars, callVars>>

\* the auth parameters somebody may write into the URL by hand
EditedAuth ==
    { [email |-> Str(Mallory), token |-> Str(<<"x">>)],
      [email |-> Str(Mallory)],
      [token |-> Str(<<"x">>)] }

\* the URLs a new session may be opened on: the current one, as it is or
\* with its auth parameter edited
Urls == {query_params} \cup {Put(query_params, "auth", a) : a \in EditedAuth}

\* main in a new session on url: init_session_state, then the login the URL
\* holds is restored
OpenedOn(url) ==
    /\ Commit(init_new_session([StartCycle EXCEPT !.query_params = url]))
    /\ authenticated' = HoldsLogin(url)
    /\ user_email' = IF HoldsLogin(url) THEN url["auth"]["email"].s ELSE NoUser
    /\ page' = IF HoldsLogin(url) THEN "app" ELSE "login"
    /\ auth_by' = IF HoldsLogin(url) THEN "recovery" ELSE "none"

\* a URL is opened in a new session
OpenUrl ==
    /\ now < MaxUserTime
    /\ \E url \in Urls : OpenedOn(url)
    /\ Touching(user_email')
    /\ UNCHANGED <<authVars, callVars>>

NextUsers ==
    \/ LoginAs
    \/ Logout
    \/ SendAs
    \/ NewAs
    \/ OpenUrl

SpecUsers == InitUsers /\ [][NextUsers]_vars

\* ------------------------------------------------------------ the allow-list check alone
ExampleCom == <<"e","x","a","m","p","l","e",".","c","o","m">>
EvilCom == <<"e","v","i","l",".","c","o","m">>
UserAt == <<"u","s","e","r","@">>

\* candidate e-mail addresses
Emails ==
    { <<"U","S","E","R","@","E","x","a","m","p","l","e",".","c","o","m">>,
      <<" ">> \o UserAt \o ExampleCom \o <<" ">>,
      UserAt \o EvilCom,
      <<"a","@","s","u","b",".">> \o ExampleCom,
      <<"a","@">> \o ExampleCom \o <<"@">> \o EvilCom,
      UserAt,
      <<"u","s","e","r">>,
      <<>> }

\* allow-list entries, as AUTHORIZED_EMAILS.split(",") yields them
Entries ==
    { UserAt \o ExampleCom,
      <<"@">> \o ExampleCom,
      <<" ","@","E","X","A","M","P","L","E",".","c","o","m">>,
      <<"@">> \o EvilCom,
      <<"@">>,
      <<>> }

\* the lists of at most n entries
RECURSIVE ListsUpTo(_)
ListsUpTo(n) ==
    IF n = 0 THEN {<<>>}
    ELSE ListsUpTo(n - 1)
         \cup {Append(l, e) : l \in {m \in ListsUpTo(n - 1) : Len(m) = n - 1}, e \in Entries}

InitAuth ==
    /\ StartsAs(init_new_session(FreshSession))
    /\ email_input \in Emails
    /\ authorized_emails \in ListsUpTo(MaxList)
    /\ authorized = "unset"
    /\ LoggedOut
    /\ touched_under = EmptyDict
    /\ ScriptIdle

\* is_email_authorized(email, authorized_emails) is called
CheckEmail ==
    /\ authorized = "unset"
    /\ authorized' = IF is_email_authorized(email_input, authorized_emails)
                     THEN "True" ELSE "False"
    /\ UNCHANGED <<email_input, authorized_emails>>
    /\ UNCHANGED <<storeVars, userVars, callVars>>

NextAuth == CheckEmail

SpecAuth == InitAuth /\ [][NextAuth]_vars

\* ================================================================ properties
\* helpers of the properties below
AutoCallsIn(p) == Cardinality({i \in 1..Len(p) : p[i].site = "auto"})
UserCount(conv) ==
    Cardinality({i \in 1..Len(conv["messages"]) : conv["messages"][i]["role"] = "user"})
\* this step ran the chat handler and call_api returned a reply
ChatAnswered ==
    /\ posted' # <<>>
    /\ posted'[1].site = "chat"
    /\ DOMAIN posted'[1].response # {}
\* the reply the automatic summary call of this step got
AutoReply == posted'[CHOOSE i \in 1..Len(posted') : posted'[i].site = "auto"].response
ReplyHasContent(r) == "messages" \in DOMAIN r /\ Len(r["messages"]) > 0
ReplyContent(r) ==
    IF "content" \in DOMAIN r["messages"][1] THEN r["messages"][1]["content"] ELSE Str(<<>>)
\* the collection is what the URL holds
Saved == "conv" \in DOMAIN query_params /\ query_params["conv"] = EncodeCollection(conversations)

\* C1: over a conversation's whole lifetime the automatic summary request is
\* issued at most once.
C1_AutoSummaryAtMostOnce ==
    \A id \in DOMAIN autoSummaryCalls : autoSummaryCalls[id] <= 1

\* C2 (as claimed): a processed chat reply issues exactly one automatic summary
\* call, and stores the content it returns, if the projected result is present
\* and not "pending" in any letter case and no summary is recorded; otherwise
\* it issues none.
C2_Original ==
    [][ChatAnswered =>
          LET id == current_conversation_id
              result == Get(conversations'[id]["state"], "result", None)
          IN IF /\ result.tag # "none"
                /\ Lower(result.s) # PendingText
                /\ ~Truthy(conversations[id]["summary"])
             THEN /\ AutoCallsIn(posted') = 1
                  /\ ReplyHasContent(AutoReply) =>
                         conversations'[id]["summary"] = ReplyContent(AutoReply)
             ELSE AutoCallsIn(posted') = 0]_vars

\* C2 (amended): exactly one automatic summary call is issued if the projected
\* result is a non-empty string other than "pending" in any letter case and no
\* non-empty summary is recorded, and none otherwise; the content the call
\* returns becomes the summary, and a call that fails or returns no first
\* message leaves the summary as it was.
C2_AutoSummaryTrigger ==
    [][ChatAnswered =>
          LET id == current_conversation_id
              result == Get(conversations'[id]["state"], "result", None)
          IN IF /\ result.tag = "str"
                /\ result.s # <<>>
                /\ Lower(result.s) # PendingText
                /\ ~Truthy(conversations[id]["summary"])
             THEN /\ AutoCallsIn(posted') = 1
                  /\ conversations'[id]["summary"] =
                         IF ReplyHasContent(AutoReply)
                         THEN ReplyContent(AutoReply)
                         ELSE conversations[id]["summary"]
             ELSE /\ AutoCallsIn(posted') = 0
                  /\ conversations'[id]["summary"] = conversations[id]["summary"]]_vars

\* a chat reply triggered the automatic summary and its content was stored
C2_Witness ==
    /\ AutoCallsIn(posted) = 1
    /\ current_conversation_id \in DOMAIN conversations
    /\ conversations[current_conversation_id]["summary"] = Str(SummaryText)
    /\ conversations[current_conversation_id]["state"] = [result |-> Str(SuitableText)]

\* the remaining conversation with the greatest updated_at
MostRecent(convs) ==
    CHOOSE id \in DOMAIN convs :
        \A other \in DOMAIN convs : convs[other]["updated_at"].t <= convs[id]["updated_at"].t

\* C3: deleting the selected conversation while others remain selects the
\* remaining conversation with the greatest updated_at.
C3_DeleteSelectsMostRecent ==
    [][(/\ current_conversation_id \in DOMAIN conversations
        /\ current_conversation_id \notin DOMAIN conversations'
        /\ DOMAIN conversations' # {}
        /\ DOMAIN conversations' \subseteq DOMAIN conversations)
       => current_conversation_id' = MostRecent(conversations')]_vars

\* C4: deleting the only conversation leaves exactly one conversation, newly
\* created (fresh id, only the greeting) and current; the collection is never
\* empty when a cycle has ended.
C4_DeleteOnlyRecreates ==
    /\ [](DOMAIN conversations # {})
    /\ [][(Cardinality(DOMAIN conversations) = 1
           /\ DOMAIN conversations \cap DOMAIN conversations' = {})
          => /\ Cardinality(DOMAIN conversations') = 1
             /\ \A id \in DOMAIN conversations' :
                  /\ id >= nextUuid
                  /\ current_conversation_id' = id
                  /\ conversations'[id]["id"] = id
                  /\ Len(conversations'[id]["messages"]) = 1
                  /\ conversations'[id]["messages"][1]["role"] = "assistant"
                  /\ conversations'[id]["messages"][1]["content"] = Str(GreetingText)]_vars

\* the only conversation was deleted and a first conversation created anew
C4_Witness ==
    /\ DOMAIN conversations = {3}
    /\ current_conversation_id = 3
    /\ conversations[3]["title"] = Str(ConversationText \o <<"1">>)
    /\ nextUuid = 5

\* C5: loading the blob written by save_conversations_to_storage gives back
\* the collection, field for field.
C5_RoundTrip ==
    load_conversations_from_storage(save_conversations_to_storage(Session)) = conversations

\* the session ids in use
SessionIds(convs) == {convs[id]["session_id"] : id \in DOMAIN convs}

\* a record as create_new_conversation must leave it
FreshlyCreated(conv) ==
    /\ Len(conv["messages"]) = 1
    /\ conv["messages"][1]["role"] = "assistant"
    /\ conv["messages"][1]["content"] = Str(GreetingText)
    /\ UserCount(conv) = 0
    /\ conv["created_at"] = conv["updated_at"]
    /\ conv["state"] = EmptyDict
    /\ conv["summary"] = Str(<<>>)

\* C8: create_new_conversation yields one assistant greeting and no user
\* message, created_at = updated_at, a fresh id and session id, an empty state
\* and summary; the conversation becomes current and the collection is saved.
C8_CreateSeedsGreeting ==
    /\ \A id \in DOMAIN conversations :
           FreshlyCreated(conversations[id]) /\ current_conversation_id = id /\ Saved
    /\ [][\A id \in DOMAIN conversations' \ DOMAIN conversations :
            /\ FreshlyCreated(conversations'[id])
            /\ conversations'[id]["id"] = id
            /\ id >= nextUuid
            /\ conversations'[id]["session_id"] >= nextUuid
            /\ conversations'[id]["session_id"] # id
            /\ conversations'[id]["session_id"] \notin SessionIds(conversations)
            /\ current_conversation_id' = id
            /\ Saved']_vars

\* "New Conversation" was pressed while a conversation existed
C8_Witness ==
    /\ Cardinality(DOMAIN conversations) = 2
    /\ current_conversation_id = 3
    /\ 3 \in DOMAIN conversations
    /\ Len(conversations[3]["messages"]) = 1

\* C9: appending a user message sets the conversation's updated_at to the
\* time of the append and saves the collection, whatever the agent call does.
C9_AppendTouches ==
    [][\A id \in DOMAIN conversations \cap DOMAIN conversations' :
          UserCount(conversations'[id]) = UserCount(conversations[id]) + 1
          => /\ conversations'[id]["updated_at"] = Dt(now')
             /\ \E i \in 1..Len(query_params'["conv"][id]["messages"]) :
                    /\ query_params'["conv"][id]["messages"][i]["role"] = "user"
                    /\ query_params'["conv"][id]["messages"][i]["timestamp"]
                           = Str(IsoFormat(now'))]_vars

\* the first user message of a conversation, as text
FirstUserText(conv) ==
    conv["messages"][CHOOSE i \in 1..Len(conv["messages"]) :
                         /\ conv["messages"][i]["role"] = "user"
                         /\ \A j \in 1..(i - 1) : conv["messages"][j]["role"] # "user"]
        ["content"].s

\* C10: the first user message sets the title to the message if it has at most
\* 50 characters, else to its first 50 characters followed by "..."; no later
\* user message, agent reply or summary changes the title.
C10_TitleFromFirstMessage ==
    [][\A id \in DOMAIN conversations \cap DOMAIN conversations' :
          /\ (UserCount(conversations[id]) = 0 /\ UserCount(conversations'[id]) = 1)
             => conversations'[id]["title"] =
                    Str(IF Len(FirstUserText(conversations'[id])) <= 50
                        THEN FirstUserText(conversations'[id])
                        ELSE SubSeq(FirstUserText(conversations'[id]), 1, 50)
                             \o <<".", ".", ".">>)
          /\ (UserCount(conversations[id]) >= 1 /\ posted' # <<>>)
             => conversations'[id]["title"] = conversations[id]["title"]]_vars

\* a truncated title survived a second user message and its reply
C10_Witness ==
    \E id \in DOMAIN conversations :
        /\ UserCount(conversations[id]) = 2
        /\ Len(conversations[id]["messages"]) = 5
        /\ conversations[id]["title"] = Str(Rep(50, "a") \o <<".", ".", ".">>)

\* C6: migrate_conversations is idempotent: a second application changes no
\* field of any record, and no application changes or removes a field that a
\* record already had.
C6_MigrateIdempotent ==
    [][/\ DOMAIN conversations' = DOMAIN conversations
       /\ \A id \in DOMAIN conversations :
              \A f \in DOMAIN conversations[id] :
                  /\ f \in DOMAIN conversations'[id]
                  /\ conversations'[id][f] = conversations[id][f]
       /\ now >= 2 => conversations' = conversations]_vars

\* a record hydrated without title, timestamps and session id was migrated twice
C6_Witness ==
    /\ now = 3
    /\ 1 \in DOMAIN conversations
    /\ conversations[1]["title"] = Str(ConversationText \o <<"1">>)
    /\ conversations[1]["created_at"] = Dt(2)
    /\ conversations[1]["updated_at"] = Dt(2)
    /\ conversations[1]["session_id"] = 1
    /\ conversations[1]["summary"] = Str(SummaryText)

\* the domain portion of an address: the text after its last '@'
DomainPortion(email) ==
    SubSeq(email,
           (CHOOSE i \in 1..Len(email) :
                email[i] = "@" /\ \A j \in (i + 1)..Len(email) : email[j] # "@") + 1,
           Len(email))

\* the matching rule as claimed, on the trimmed and lowercased texts
ClaimedMatch(email, entry) ==
    \/ entry = email
    \/ /\ entry # <<>>
       /\ entry[1] = "@"
       /\ Contains(email, "@")
       /\ DomainPortion(email) = Tail(entry)

\* C7: is_email_authorized is true exactly when, after trimming and lowercasing,
\* some entry equals the email in full, or some entry starts with '@' and the
\* email's domain portion equals the entry without the '@'.
C7_AuthorizedExactly ==
    authorized # "unset" =>
        ((authorized = "True") <=>
            \E i \in 1..Len(authorized_emails) :
                ClaimedMatch(Lower(Strip(email_input)),
                             Lower(Strip(authorized_emails[i]))))

\* the reply the chat call of this step got
ChatReply == posted'[1].response

\* C11: a processed chat reply with custom_outputs replaces the conversation's
\* assessment state by exactly custom_outputs; one without custom_outputs
\* leaves the state as it was, and processing it does not fail.
C11_StateReplacedWholesale ==
    [][ChatAnswered =>
          IF "custom_outputs" \in DOMAIN ChatReply
          THEN /\ conversations'[current_conversation_id]["state"]
                      = ChatReply["custom_outputs"]
               /\ assessment_state' = ChatReply["custom_outputs"]
          ELSE /\ conversations'[current_conversation_id]["state"]
                      = conversations[current_conversation_id]["state"]
               /\ ~unhandled']_vars

\* this step ran the chat handler and call_api returned None
SendFailed ==
    /\ posted' # <<>>
    /\ posted'[1].site = "chat"
    /\ DOMAIN posted'[1].response = {}

\* the messages grew by exactly one user message
OneUserMessageMore(before, after) ==
    /\ Len(after) = Len(before) + 1
    /\ SubSeq(after, 1, Len(before)) = before
    /\ after[Len(after)]["role"] = "user"

\* C12 (as claimed): a failed chat call is not retried and leaves the
\* conversation as it was except for the appended user message.
C12_Original ==
    [][SendFailed =>
          /\ Len(posted') = 1
          /\ OneUserMessageMore(conversations[current_conversation_id]["messages"],
                                conversations'[current_conversation_id]["messages"])
          /\ conversations' =
                 [conversations EXCEPT ![current_conversation_id]["messages"] =
                      conversations'[current_conversation_id]["messages"]]]_vars

\* C12 (amended): a failed chat call is not retried; the conversation gains the
\* user's message, its title is derived from that message when it is the
\* conversation's first user message, and nothing else changes: no assistant
\* message, the same state, summary and every other field.
C12_FailedSendKeepsConversation ==
    [][SendFailed =>
          /\ Len(posted') = 1
          /\ OneUserMessageMore(conversations[current_conversation_id]["messages"],
                                conversations'[current_conversation_id]["messages"])
          /\ conversations' =
                 [conversations EXCEPT
                      ![current_conversation_id]["messages"] =
                          conversations'[current_conversation_id]["messages"],
                      ![current_conversation_id]["title"] =
                          IF UserCount(conversations[current_conversation_id]) = 0
                          THEN Str(TitleOf(FirstUserText(
                                       conversations'[current_conversation_id])))
                          ELSE @]
          /\ assessment_state' = assessment_state]_vars

\* a chat call failed on a conversation that held a state and a summary
C12_Witness ==
    /\ posted # <<>>
    /\ posted[1].site = "chat"
    /\ DOMAIN posted[1].response = {}
    /\ current_conversation_id \in DOMAIN conversations
    /\ conversations[current_conversation_id]["summary"] = Str(SummaryText)
    /\ conversations[current_conversation_id]["state"] = [result |-> Str(SuitableText)]
    /\ UserCount(conversations[current_conversation_id]) = 2

\* the reply lacks the messages key, a first message, or its content
MissingFields(r) ==
    \/ "messages" \notin DOMAIN r
    \/ r["messages"] = <<>>
    \/ "content" \notin DOMAIN r["messages"][1]

\* the last message of the current conversation is the fallback
FallbackAppended ==
    /\ conversations'[current_conversation_id]["messages"] # <<>>
    /\ conversations'[current_conversation_id]["messages"]
           [Len(conversations'[current_conversation_id]["messages"])]
       = [role |-> "assistant", content |-> Str(FallbackText),
          timestamp |-> Dt(now'), latency |-> Num(1)]

\* C13: a reply with missing fields, to a chat send, a manual summary request
\* or the automatic summary request, never ends the interaction in an unhandled
\* error; for a chat reply the fallback assistant message is appended.
C13_MalformedDegradesGracefully ==
    [][/\ ~unhandled'
       /\ (ChatAnswered /\ MissingFields(ChatReply)) => FallbackAppended]_vars

\* C19: at the end of every interaction cycle the persisted blob is the
\* serialisation of the in-memory collection: every mutation was flushed.
C19_FlushedEveryCycle ==
    /\ "conv" \in DOMAIN query_params
    /\ query_params["conv"] = EncodeCollection(conversations)

\* C20: the message sequence of a conversation is append-only: while the
\* conversation exists, its sequence before a step is a prefix of the one after.
C20_MessagesAppendOnly ==
    [][\A id \in DOMAIN conversations \cap DOMAIN conversations' :
          /\ Len(conversations[id]["messages"]) <= Len(conversations'[id]["messages"])
          /\ SubSeq(conversations'[id]["messages"], 1, Len(conversations[id]["messages"]))
                 = conversations[id]["messages"]]_vars

\* C16: every conversation in the store has updated_at >= created_at, a
\* hydrated record that migrate_conversations completed included.
C16_UpdatedNotBeforeCreated ==
    \A id \in DOMAIN conversations :
        {"created_at", "updated_at"} \subseteq DOMAIN conversations[id]
        => conversations[id]["updated_at"].t >= conversations[id]["created_at"].t

\* C17: every conversation in the store has a non-empty message sequence, a
\* hydrated record that migrate_conversations completed included.
C17_MessagesNonEmpty ==
    \A id \in DOMAIN conversations :
        "messages" \in DOMAIN conversations[id]
        => conversations[id]["messages"] # <<>>

\* C18: once a conversation has a session_id, assigned at creation or by
\* migration, no later operation changes it, and every agent call made for
\* the conversation carries it.
C18_SessionIdImmutable ==
    [][/\ \A id \in DOMAIN conversations \cap DOMAIN conversations' :
              "session_id" \in DOMAIN conversations[id]
              => /\ "session_id" \in DOMAIN conversations'[id]
                 /\ conversations'[id]["session_id"] = conversations[id]["session_id"]
       /\ \A i \in 1..Len(posted') :
              posted'[i].session_id = conversations[current_conversation_id]["session_id"]]_vars

\* a conversation whose session_id migration assigned was selected and used for
\* a chat and its automatic summary
C18_Witness ==
    /\ 1 \in DOMAIN conversations
    /\ conversations[1]["session_id"] = 3
    /\ UserCount(conversations[1]) = 1
    /\ conversations[1]["summary"] = Str(SummaryText)
    /\ Len(posted) = 2

C15_CollectionsDisjoint ==
    authenticated =>
        \A id \in DOMAIN conversations : touched_under[id] \subseteq {user_email, NoUser}

\* C21: the current-conversation pointer is unset or names a conversation of
\* the collection, whatever was created, selected, deleted, sent or reloaded.
C21_PointerValid ==
    \/ current_conversation_id = NoneId
    \/ current_conversation_id \in DOMAIN conversations

\* the selected conversation was deleted while the first one remained
C21_Witness ==
    /\ DOMAIN conversations = {1}
    /\ nextUuid = 5
    /\ current_conversation_id = NoneId
    /\ Saved

\* this step ran the "Generate Summary" handler and call_api returned a reply
SummaryAnswered ==
    /\ posted' # <<>>
    /\ posted'[1].site = "manual"
    /\ DOMAIN posted'[1].response # {}

\* C23: processing the reply to a manual summary request changes only the
\* conversation's summary (the reply's content, or the fallback text): no
\* message is appended, state, title, session_id and updated_at stay, no
\* further agent call is issued, and the collection is saved.
C23_SummaryOnlySetsSummary ==
    [][SummaryAnswered =>
          /\ conversations' =
                 [conversations EXCEPT ![current_conversation_id]["summary"] =
                      IF ReplyHasContent(posted'[1].response)
                      THEN ReplyContent(posted'[1].response)
                      ELSE Str(FallbackText)]
          /\ assessment_state' = assessment_state
          /\ current_conversation_id' = current_conversation_id
          /\ Len(posted') = 1
          /\ query_params'["conv"] = EncodeCollection(conversations')]_vars

\* a manual summary replaced the summary of a conversation with a chat history
C23_Witness ==
    /\ posted # <<>>
    /\ posted[1].site = "manual"
    /\ current_conversation_id \in DOMAIN conversations
    /\ conversations[current_conversation_id]["summary"] = Str(SummaryText)
    /\ conversations[current_conversation_id]["state"] = [result |-> Str(PendingText)]
    /\ Len(conversations[current_conversation_id]["messages"]) = 3
    /\ conversations[current_conversation_id]["updated_at"] = Dt(2)
    /\ now = 3

\* C22: an agent call is issued and main_app is shown only in a cycle of an
\* authenticated session; a session becomes authenticated, or changes its
\* user, only by a login whose email passes is_valid_email and
\* is_email_authorized, or by recovery of a persisted record that holds an
\* email and a token; an unauthenticated session holds no such record, so it
\* stays unauthenticated until a login.
C22_AuthenticatedOnly ==
    /\ [](posted # <<>> => authenticated)
    /\ [](page = "app" <=> authenticated)
    /\ [](~authenticated => ~HoldsLogin(query_params) /\ auth_by = "none")
    /\ [][(authenticated' /\ (~authenticated \/ user_email' # user_email))
          => \/ /\ auth_by' = "login"
                /\ ~authenticated
                /\ user_email' # <<>>
                /\ is_valid_email(user_email')
                /\ is_email_authorized(user_email', AllowList)
                /\ HoldsLogin(query_params')
             \/ /\ auth_by' = "recovery"
                /\ HoldsLogin(query_params')
                /\ user_email' = query_params'["auth"]["email"].s]_vars
    /\ [][(authenticated /\ ~authenticated') => "auth" \notin DOMAIN query_params'
                                                \/ ~HoldsLogin(query_params')]_vars

\* after a login, a logout and a second login the new user sent a message
C22_Witness ==
    /\ authenticated
    /\ auth_by = "login"
    /\ user_email = UserB
    /\ posted # <<>>
    /\ \E id \in DOMAIN touched_under : UserA \in touched_under[id]
====
